---- MODULE Spec2Model ----
(***************************************************************************)
(* A model of kademlia-rs: node ids and the XOR metric (node_id.rs), the   *)
(* k-bucket (k_bucket.rs), and the node with its routing table, request    *)
(* dispatch, publication and iterative lookup (node.rs), driven the way    *)
(* the examples drive it (examples/find-nodes.rs, examples/ping-pong.rs).  *)
(*                                                                         *)
(* Scaling.  The source has 160-bit ids, 160 buckets and K = 6.  The model *)
(* keeps the algorithms and scales the sizes: ids have IdBits bits, the    *)
(* table has IdBits buckets and a bucket holds K entries.                  *)
(*                                                                         *)
(* Network.  UDP: datagrams in flight are unordered and may be dropped.    *)
(* net is the set of datagrams in flight; two identical datagrams in       *)
(* flight are not distinguished.                                           *)
(*                                                                         *)
(* Specifications.  Spec starts from freshly constructed nodes and runs    *)
(* bootstrapping, pings, publication, one lookup and faults, following a   *)
(* lookup for MaxPasses passes.  LookupSpec starts from a network whose    *)
(* nodes have noted one another and runs a lookup and the servers that     *)
(* answer it for as long as the code does, without faults and under        *)
(* fairness of the threads and of the delivery of replies.                 *)
(* ApiSpec sends every kind of request in that network and lets the       *)
(* servers handle them one at a time; RepeatSpec publishes a key and looks *)
(* keys up repeatedly; TableSpec calls note_node and the closest-nodes     *)
(* query on one node's table directly, for every target.                   *)
(* BucketSpec calls saw_node on one bucket directly, and IdSpec calls      *)
(* bucket_index and the hexadecimal conversions on ids alone.              *)
(***************************************************************************)
EXTENDS Integers, Sequences, FiniteSets, TLC

\* ---------------------------------------------------------------- bounds

\* Bucket capacity (k_bucket.rs:41 has 6), scaled down.
K == 2
\* Width of a NodeId in bits (node_id.rs:10 has 20 bytes), scaled down.
IdBits == 3
\* Ping requests an application sends per node while bootstrapping.
MaxPing == 1
\* find calls per client.
MaxFinds == 1
\* try_store calls per publisher.
MaxStores == 1
\* Faults over the whole run: send_to calls that fail and undecodable
\* datagrams that arrive.
MaxFaults == 1
\* Size of the excluded sets find_k_known_nodes_closer_to_not_in is called with
\* directly.
MaxExcluded == 2
\* Bytes of a NodeId where the bytes matter, in the hexadecimal conversions
\* (node_id.rs:10 has 20), scaled down.
HexBytes == 3
\* The round counter of a lookup saturates here.
MaxRounds == 6
\* Spec follows a lookup for this many passes of its loop.
MaxPasses == 3

\* ------------------------------------------------------------- universe

\* The NodeIds.
Ids == 0 .. (2^IdBits - 1)

\* Socket addresses; a node is named by the address it is bound to.
Nodes == {"Z", "X", "A", "B"}
\* Nodes whose application runs the receive loop.
Servers == {"X", "A", "B"}
\* Nodes whose application calls find.
Clients == {"Z"}
\* Nodes whose application calls try_store.
Publishers == {"X"}
\* The peers each application is configured to bootstrap with, in order.
BootList == [Z |-> <<"A", "B", "X">>, X |-> <<"A", "B">>]

NumBuckets == IdBits
\* Keys the applications store and look up (storage.rs:28: a Key is a NodeId).
Keys == {1, 7}
\* Values the applications store (storage.rs:37).
Values == {"bar"}
NoValue == "<none>"

\* The ids the nodes drew at construction: the servers share one bucket of
\* the client and are closer to one another than to the client.
IdLayouts == { [Z |-> 0, X |-> 4, A |-> 5, B |-> 6] }
\* The peers each application bootstraps with in a network whose servers
\* know one another.
MeshList ==
  [Z |-> <<"A", "B", "X">>, X |-> <<"A", "B">>, A |-> <<"X", "B">>, B |-> <<"X", "A">>]

\* ------------------------------------------------------------ node_id.rs

RECURSIVE XorBits(_, _, _)
XorBits(a, b, n) ==
  IF n = 0 THEN 0
  ELSE (IF (a % 2) = (b % 2) THEN 0 ELSE 1) + 2 * XorBits(a \div 2, b \div 2, n - 1)

\* The XOR of every pair of ids, computed once.
XorTable == [a \in Ids |-> [b \in Ids |-> XorBits(a, b, IdBits)]]

\* NodeId::xor: the bitwise XOR of two ids, a Distance.
xor(a, b) == XorTable[a][b]

\* Bit p of d, p = 0 the most significant (the order bucket_index reads them).
BitAt(d, p) == (d \div (2^(IdBits - 1 - p))) % 2

\* The loop of Distance::bucket_index from bit p on: return idx at the first
\* set bit; otherwise decrement idx unless it is 0 already.
RECURSIVE BucketIndexFrom(_, _, _)
BucketIndexFrom(d, p, idx) ==
  IF p = IdBits THEN idx
  ELSE IF BitAt(d, p) # 0 THEN idx
  ELSE BucketIndexFrom(d, p + 1, IF idx # 0 THEN idx - 1 ELSE idx)

\* The bucket index of every distance, computed once.
BucketIndexTable == [d \in Ids |-> BucketIndexFrom(d, 0, IdBits - 1)]

\* A variant of bucket_index that counts the bits below the first set one
\* without stopping at 0.
bucket_index_unclamped(d) ==
  IF d = 0 THEN -1 ELSE BucketIndexTable[d]

\* Distance::bucket_index.
bucket_index(d) == BucketIndexTable[d]

\* --------------------------------------- node_id.rs, hexadecimal conversions

\* The values a byte of an id takes here: zero, a zero upper half, a zero
\* lower half, and both halves set.
ByteValues == {0, 1, 10, 16, 171, 255}

\* The ids as the arrays of bytes they are, most significant byte first.
ByteIds == [1..HexBytes -> ByteValues]

\* The characters {:x} writes for the values 0 to 15.
LowerHex ==
  <<"0", "1", "2", "3", "4", "5", "6", "7", "8", "9", "a", "b", "c", "d", "e", "f">>

\* The characters char::to_digit(16) accepts besides, for the values 10 to 15.
UpperHex == <<"A", "B", "C", "D", "E", "F">>

\* write!(f, "{:x}", half): the character of a half byte.
HexChar(half) == LowerHex[half + 1]

\* char::to_digit(16): the value of the character c, -1 for None.
ToDigit(c) ==
  IF \E v \in 1..16 : LowerHex[v] = c
  THEN (CHOOSE v \in 1..16 : LowerHex[v] = c) - 1
  ELSE IF \E v \in 1..6 : UpperHex[v] = c
  THEN (CHOOSE v \in 1..6 : UpperHex[v] = c) + 9
  ELSE -1

\* The loop of Display::fmt from byte j on, out being what was written so far:
\* leading zero bytes are skipped and so is a zero upper half of the first
\* byte that is written.
RECURSIVE FmtFrom(_, _, _, _)
FmtFrom(bytes, j, all_zeros, out) ==
  IF j > Len(bytes) THEN out
  ELSE IF all_zeros /\ bytes[j] = 0 THEN FmtFrom(bytes, j + 1, all_zeros, out)
  ELSE LET upper_half == bytes[j] \div 16
           lower_half == bytes[j] % 16
           upper == IF ~all_zeros \/ (all_zeros /\ upper_half # 0)
                    THEN <<HexChar(upper_half)>> ELSE <<>>
       IN FmtFrom(bytes, j + 1, FALSE, out \o upper \o <<HexChar(lower_half)>>)

\* impl fmt::Display for NodeId: the characters written.
fmt(bytes) == FmtFrom(bytes, 1, TRUE, <<>>)

\* Option<NodeId>: None, and Some(bytes).
None == <<>>
Some(bytes) == <<bytes>>

\* The loops of from_hex_string at step pos = 2 * i + j, rev being the
\* characters not yet read, last first, and acc the id so far.  The halves
\* are or-ed into zero bytes, which adds them.
RECURSIVE FromHexFrom(_, _, _)
FromHexFrom(rev, pos, acc) ==
  IF pos = 2 * HexBytes THEN (IF rev # <<>> THEN None ELSE Some(acc))
  ELSE IF rev = <<>> THEN Some(acc)
  ELSE LET i == pos \div 2
           j == pos % 2
           c == ToDigit(Head(rev))
       IN IF c = -1 THEN None
          ELSE FromHexFrom(Tail(rev), pos + 1,
                 [acc EXCEPT ![HexBytes - i] = @ + c * (IF j = 0 THEN 1 ELSE 16)])

\* chars().rev().
Reversed(str) == [j \in 1..Len(str) |-> str[Len(str) + 1 - j]]

\* NodeId::from_hex_string.
from_hex_string(str) ==
  IF str = <<>> THEN None
  ELSE FromHexFrom(Reversed(str), 0, [j \in 1..HexBytes |-> 0])

\* ----------------------------------------------------------- k_bucket.rs

\* KBucketEntry::new.
KBucketEntry(i, a) == [id |-> i, addr |-> a]

\* KBucket::new.
EmptyBucket == <<>>

\* position(|e| e.node_id == *id): the first index holding id, 0 if none.
Position(entries, i) ==
  IF \E j \in 1..Len(entries) : entries[j].id = i
  THEN CHOOSE j \in 1..Len(entries) :
         /\ entries[j].id = i
         /\ \A l \in 1..(j - 1) : entries[l].id # i
  ELSE 0

\* VecDeque::remove(j).
RemoveAt(entries, j) ==
  [l \in 1..(Len(entries) - 1) |-> IF l < j THEN entries[l] ELSE entries[l + 1]]

\* A variant that leaves an entry already recorded where it is.
PromotedInPlace(entries, i, a) ==
  IF Position(entries, i) # 0 THEN entries
  ELSE Append(entries, KBucketEntry(i, a))

\* A variant that records the address of the call for an id already recorded.
PromotedReaddressed(entries, i, a) ==
  LET j == Position(entries, i)
  IN IF j # 0 THEN Append(RemoveAt(entries, j), KBucketEntry(i, a))
     ELSE Append(entries, KBucketEntry(i, a))

\* saw_node up to push_back: the existing entry (or a new one) moved to the back.
Promoted(entries, i, a) ==
  LET j == Position(entries, i)
  IN IF j # 0 THEN Append(RemoveAt(entries, j), entries[j])
     ELSE Append(entries, KBucketEntry(i, a))

\* saw_node without the pop_front of a bucket grown beyond K.
saw_node_keeps_front(entries, i, a) == Promoted(entries, i, a)

\* saw_node without the removal of the entry already recorded for the id.
saw_node_keeps_old(entries, i, a) ==
  LET pushed == Append(entries, KBucketEntry(i, a))
  IN IF Len(pushed) > K THEN Tail(pushed) ELSE pushed

\* KBucket::saw_node: the bucket afterwards.
saw_node(entries, i, a) ==
  LET pushed == Promoted(entries, i, a)
  IN IF Len(pushed) > K THEN Tail(pushed) ELSE pushed

\* A variant that returns the front of every full bucket, the id being new
\* or not.
saw_node_evicted_when_full(entries, i, a) ==
  IF Len(entries) = K THEN <<Head(entries)>> ELSE <<>>

\* KBucket::saw_node: the returned evicted entry, <<>> for None.
saw_node_evicted(entries, i, a) ==
  LET pushed == Promoted(entries, i, a)
  IN IF Len(pushed) > K THEN <<Head(pushed)>> ELSE <<>>

\* KBucket::collect_into: ret followed by the entries whose id is not in seen.
collect_into(entries, ret, seenIds) ==
  ret \o SelectSeq(entries, LAMBDA e : e.id \notin seenIds)

\* --------------------------------------------------- node.rs, routing table

\* Node::new: the buckets of a fresh node.
NewBuckets == [b \in 0..(NumBuckets - 1) |-> EmptyBucket]

\* A variant of note_node that records every peer in the first bucket.
note_node_first_bucket(tbl, owner, i, a) ==
  [tbl EXCEPT ![0] = saw_node(tbl[0], i, a)]

\* Node::note_node on the table tbl of the node with id owner.
note_node(tbl, owner, i, a) ==
  LET b == bucket_index(xor(owner, i))
  IN [tbl EXCEPT ![b] = saw_node(tbl[b], i, a)]

\* A variant of the loop that looks at the two buckets next to the home
\* bucket and no further.
GatherNeighbours(tbl, index, delta, ret, seenIds) ==
  LET r1 == IF index >= 1
            THEN collect_into(tbl[index - 1], ret, seenIds) ELSE ret
  IN IF index + 1 < NumBuckets
     THEN collect_into(tbl[index + 1], r1, seenIds) ELSE r1

\* The while loop of find_k_known_nodes_closer_to_not_in from delta on.
RECURSIVE Gather(_, _, _, _, _)
Gather(tbl, index, delta, ret, seenIds) ==
  IF Len(ret) >= K THEN ret
  ELSE LET lo == index >= delta
           hi == index + delta < NumBuckets
           r1 == IF lo THEN collect_into(tbl[index - delta], ret, seenIds) ELSE ret
           r2 == IF hi THEN collect_into(tbl[index + delta], r1, seenIds) ELSE r1
       IN IF ~(lo \/ hi) THEN ret
          ELSE Gather(tbl, index, delta + 1, r2, seenIds)

\* The key ret.sort_by_key sorts by: the distance from the owner.
SortKey(owner, target, e) == xor(owner, e.id)

\* Vec::sort_by_key, a stable sort: the element at position j goes behind
\* every element with a smaller key and every earlier element with its key.
SortByKey(s, owner, target) ==
  LET Before(l, j) ==
        \/ SortKey(owner, target, s[l]) < SortKey(owner, target, s[j])
        \/ SortKey(owner, target, s[l]) = SortKey(owner, target, s[j]) /\ l < j
      Rank(j) == 1 + Cardinality({l \in 1..Len(s) : Before(l, j)})
  IN [p \in 1..Len(s) |-> s[CHOOSE j \in 1..Len(s) : Rank(j) = p]]

\* A variant that returns everything that was gathered.
TruncateNothing(s) == s

\* Vec::truncate(K).
Truncate(s) == IF Len(s) > K THEN SubSeq(s, 1, K) ELSE s

\* Node::find_k_known_nodes_closer_to_not_in.
find_k_known_nodes_closer_to_not_in(tbl, owner, target, seenIds) ==
  LET index == bucket_index(xor(owner, target))
      first == collect_into(tbl[index], <<>>, seenIds)
      sorted == {SortByKey(ret, owner, target) :
                   ret \in {Gather(tbl, index, 1, first, seenIds)}}
  IN Truncate(CHOOSE ret \in sorted : TRUE)

\* Node::find_k_known_nodes_closer_to.
find_k_known_nodes_closer_to(tbl, owner, target) ==
  find_k_known_nodes_closer_to_not_in(tbl, owner, target, {})

\* ------------------------------------------------------------------ rpc.rs

Requests == {"Ping", "FindNode", "Store", "FindValue"}
Responses == {"Pong", "FindNodeResp", "Value", "CloserNodes"}

\* A datagram in flight: an RPCMessage (sender, kind) from socket src to socket
\* to.  t is the variant; key is the NodeId or Key it carries, val the Value,
\* nodes the entry list.  t = "Garbage" is a datagram that does not decode.
Msg(to, src, sender, t, key, val, nodes) ==
  [to |-> to, src |-> src, sender |-> sender, t |-> t,
   key |-> key, val |-> val, nodes |-> nodes]

NoMsg == Msg("-", "-", 0, "-", 0, NoValue, <<>>)

\* The read timeouts a socket can have: None (block) or some duration.
Timeouts == {"None", "Some"}

\* ------------------------------------------------------------------- state

VARIABLES
  id,          \* Node::id of each node
  buckets,     \* Node::buckets of each node
  store,       \* Node::store of each node
  timeout,     \* the read timeout of each node's socket
  net,         \* datagrams in flight
  pc,          \* where each node's thread is
  got,         \* the last message recv_message returned to each node
  k,           \* find: the key looked up
  nodes_seen,  \* find: nodes_seen
  from_last,   \* find: nodes_to_try_from_last_round
  old_timeout, \* find: old_timeout
  result,      \* what the last find call returned
  rounds,      \* find: passes of the loop that sent requests (saturating)
  sent_fv,     \* find: FindValue datagrams sent to each id (saturating at 2)
  calls,       \* application calls made so far, per node and operation
  send_fails,  \* send_to calls that failed so far
  garbage,     \* undecodable datagrams that arrived so far
  probe,       \* the last direct call of a function: its arguments and result
  published    \* the <<key, value>> pairs try_store was called with so far

vars == <<id, buckets, store, timeout, net, pc, got, k, nodes_seen, from_last,
          old_timeout, result, rounds, sent_fv, calls, send_fails, garbage,
          probe, published>>

\* The calls of the applications that are counted.
Ops == {"boot", "ping", "find_node", "find", "store"}

\* No function was called directly yet.
NoProbe == [op |-> "-"]

findLocals == <<k, nodes_seen, from_last, old_timeout, result, rounds, sent_fv>>

NotCalled == [kind |-> "NotCalled", val |-> NoValue]
Pending == [kind |-> "Pending", val |-> NoValue]
OkSome(v) == [kind |-> "OkSome", val |-> v]
OkNone == [kind |-> "OkNone", val |-> NoValue]
Err == [kind |-> "Err", val |-> NoValue]

Init ==
  /\ id \in IdLayouts
  /\ buckets = [n \in Nodes |-> NewBuckets]
  /\ store = [n \in Nodes |-> [key \in Keys |-> NoValue]]
  /\ timeout = [n \in Nodes |-> "None"]
  /\ net = {}
  /\ pc = [n \in Nodes |-> "idle"]
  /\ got = [n \in Nodes |-> NoMsg]
  /\ k = [n \in Nodes |-> 0]
  /\ nodes_seen = [n \in Nodes |-> {}]
  /\ from_last = [n \in Nodes |-> <<>>]
  /\ old_timeout = [n \in Nodes |-> "None"]
  /\ result = [n \in Nodes |-> NotCalled]
  /\ rounds = [n \in Nodes |-> 0]
  /\ sent_fv = [n \in Nodes |-> [i \in Ids |-> 0]]
  /\ calls = [n \in Nodes |-> [op \in Ops |-> 0]]
  /\ send_fails = 0
  /\ garbage = 0
  /\ probe = NoProbe
  /\ published = {}

\* ------------------------------------------------------------ send_message

\* Node::send_message for each datagram of msgs in turn: socket.send_to may
\* fail for any of them.  ok[j] tells whether the j-th was sent.
SendChoices(msgs) ==
  { ok \in [1..Len(msgs) -> BOOLEAN] :
      Cardinality({j \in 1..Len(msgs) : ~ok[j]}) <= MaxFaults - (send_fails + garbage) }

Sent(msgs, ok) == {msgs[j] : j \in {l \in 1..Len(msgs) : ok[l]}}

Failed(msgs, ok) == Cardinality({j \in 1..Len(msgs) : ~ok[j]})

\* A variant in which the first failure ends the sending.
SendAllUntilFailure(msgs, ok) ==
  LET firstBad == CHOOSE j \in 1..(Len(msgs) + 1) :
                    /\ j <= Len(msgs) => ~ok[j]
                    /\ \A l \in 1..(j - 1) : ok[l]
  IN /\ net' = net \cup {msgs[j] : j \in 1..(firstBad - 1)}
     /\ send_fails' = send_fails + (IF firstBad <= Len(msgs) THEN 1 ELSE 0)

\* The effect on the network of sending msgs with outcome ok.
SendAll(msgs, ok) ==
  /\ net' = net \cup Sent(msgs, ok)
  /\ send_fails' = send_fails + Failed(msgs, ok)

\* ------------------------------------------------------ application calls

\* The entries of the table tbl.
TableEntries(tbl) ==
  UNION {{tbl[b][j] : j \in 1..Len(tbl[b])} : b \in DOMAIN tbl}

\* Whether no application has sent or received anything yet.
Quiet ==
  /\ net = {}
  /\ \A n \in Nodes :
       /\ pc[n] = "idle"
       /\ got[n] = NoMsg
       /\ \A op \in {"ping", "find", "store"} : calls[n][op] = 0

\* note_node for the first len peers of the list peers, in order.
RECURSIVE NoteAll(_, _, _, _)
NoteAll(tbl, owner, peers, len) ==
  IF len = 0 THEN tbl
  ELSE note_node(NoteAll(tbl, owner, peers, len - 1), owner,
                 id[peers[len]], peers[len])

\* The application bootstraps before any node goes on the network: note_node
\* for each peer it is configured with (find-nodes.rs:63-64, 87-88;
\* ping-pong.rs:41).
Bootstrap(n, len) ==
  /\ n \in DOMAIN BootList
  /\ Quiet
  /\ calls[n]["boot"] = 0
  /\ buckets' = [buckets EXCEPT ![n] = NoteAll(buckets[n], id[n], BootList[n], len)]
  /\ calls' = [calls EXCEPT ![n]["boot"] = 1]
  /\ UNCHANGED <<id, probe, published, store, timeout, net, pc, got, findLocals, send_fails, garbage>>

\* n has noted a peer at address p.
HasNoted(n, p) == \E e \in TableEntries(buckets[n]) : e.addr = p

\* The application sends a Ping request to the address p
\* (find-nodes.rs:65-68, 89-92; ping-pong.rs:42-45).
SendPing(n, p) ==
  /\ pc[n] = "idle"
  /\ \E ok \in SendChoices(<<1>>) :
       SendAll(<<Msg(p, n, id[n], "Ping", 0, NoValue, <<>>)>>, ok)
  /\ calls' = [calls EXCEPT ![n]["ping"] = @ + 1]
  /\ UNCHANGED <<id, probe, published, buckets, store, timeout, pc, got, findLocals, garbage>>

\* The application sends a FindNode(target) request to the address p with
\* Node::send_message.
SendFindNode(n, p, target) ==
  /\ pc[n] = "idle"
  /\ \E ok \in SendChoices(<<1>>) :
       SendAll(<<Msg(p, n, id[n], "FindNode", target, NoValue, <<>>)>>, ok)
  /\ calls' = [calls EXCEPT ![n]["find_node"] = @ + 1]
  /\ UNCHANGED <<id, probe, published, buckets, store, timeout, pc, got,
                 findLocals, garbage>>

\* The application configures its socket before it goes on the network:
\* Node::set_read_timeout.
SetReadTimeout(n, d) ==
  /\ Quiet
  /\ timeout[n] # d
  /\ timeout' = [timeout EXCEPT ![n] = d]
  /\ UNCHANGED <<id, probe, published, buckets, store, net, pc, got, findLocals, calls, send_fails, garbage>>

\* A datagram that bincode cannot decode arrives for n.
GarbageArrives(n) ==
  /\ send_fails + garbage < MaxFaults
  /\ garbage' = garbage + 1
  /\ net' = net \cup {Msg(n, "-", 0, "Garbage", 0, NoValue, <<>>)}
  /\ UNCHANGED <<id, probe, published, buckets, store, timeout, pc, got, findLocals, calls, send_fails>>

\* ---------------------------------------------------------- handle_request

\* A variant of the lookup that never finds the key.
StoreGetNothing(st, key) == NoValue

\* HashMap::get: the value stored under key, NoValue for None.
StoreGet(st, key) == IF key \in DOMAIN st THEN st[key] ELSE NoValue

\* A variant that answers every FindNode request, the one for its own id too.
HandleRepliesToSelfQuery(n, tbl, m) ==
  IF m.t = "FindNode"
  THEN <<Msg(m.src, n, id[n], "FindNodeResp", 0, NoValue,
             find_k_known_nodes_closer_to(tbl, id[n], m.key))>>
  ELSE <<>>

\* Node::handle_request: the datagrams it passes to send_message, for the
\* request m received by n whose table is tbl.
HandleReplies(n, tbl, m) ==
  CASE m.t = "Ping" ->
         <<Msg(m.src, n, id[n], "Pong", 0, NoValue, <<>>)>>
    [] m.t = "FindNode" ->
         IF m.key = id[n] THEN <<>>
         ELSE <<Msg(m.src, n, id[n], "FindNodeResp", 0, NoValue,
                    find_k_known_nodes_closer_to(tbl, id[n], m.key))>>
    [] m.t = "Store" -> <<>>
    [] m.t = "FindValue" ->
         IF StoreGet(store[n], m.key) # NoValue
         THEN <<Msg(m.src, n, id[n], "Value", m.key, StoreGet(store[n], m.key), <<>>)>>
         ELSE <<Msg(m.src, n, id[n], "CloserNodes", 0, NoValue,
                    find_k_known_nodes_closer_to(tbl, id[n], m.key))>>
    [] OTHER -> <<>>

\* A variant of the store that keeps the first value of a key.
HandleStoreKeepsFirst(n, m) ==
  IF m.t = "Store" /\ store[n][m.key] = NoValue
  THEN [store[n] EXCEPT ![m.key] = m.val]
  ELSE store[n]

\* Node::handle_request: the store of n afterwards.
HandleStore(n, m) ==
  IF m.t = "Store" THEN [store[n] EXCEPT ![m.key] = m.val] ELSE store[n]

\* ------------------------------------------------------------ recv_message

\* recv_message noting the senders of requests only.
TaughtByRequests(n, m) ==
  IF m.t \in Requests THEN note_node(buckets[n], id[n], m.sender, m.src)
  ELSE buckets[n]

\* A variant of recv_message that notes the peers a reply lists as well.
TaughtWithEntries(n, m) ==
  LET RECURSIVE Listed(_)
      Listed(len) ==
        IF len = 0 THEN note_node(buckets[n], id[n], m.sender, m.src)
        ELSE note_node(Listed(len - 1), id[n],
                       m.nodes[len].id, m.nodes[len].addr)
  IN Listed(Len(m.nodes))

\* The table of n after recv_message returned m: the sender is noted.
Taught(n, m) == note_node(buckets[n], id[n], m.sender, m.src)

\* A variant of recv_message that does not note the sender.
RecvOkUnnoted(n, m) ==
  /\ m \in net
  /\ m.to = n
  /\ m.t # "Garbage"
  /\ UNCHANGED buckets
  /\ got' = [got EXCEPT ![n] = m]

\* Node::recv_message returning Ok for the datagram m.
RecvOk(n, m) ==
  /\ m \in net
  /\ m.to = n
  /\ m.t # "Garbage"
  /\ buckets' = [buckets EXCEPT ![n] = Taught(n, m)]
  /\ got' = [got EXCEPT ![n] = m]

\* A variant of the failing recv_message that notes the source all the same.
RecvErrNoting(n, m) ==
  /\ m \in net
  /\ m.to = n
  /\ m.t = "Garbage"
  /\ buckets' = [buckets EXCEPT ![n] = Taught(n, m)]
  /\ UNCHANGED got

\* Node::recv_message returning Err: the datagram m does not decode.
RecvErr(n, m) ==
  /\ m \in net
  /\ m.to = n
  /\ m.t = "Garbage"
  /\ UNCHANGED <<buckets, got>>

\* ------------------------------- the receive loop (find-nodes.rs:32-48)

\* One turn of the receive loop: recv_message succeeds and the request goes to
\* handle_request.
Serve(n, m) ==
  /\ pc[n] = "idle"
  /\ RecvOk(n, m)
  /\ store' = [store EXCEPT ![n] = HandleStore(n, m)]
  /\ \E replies \in {IF m.t \in Requests
                      THEN HandleReplies(n, Taught(n, m), m) ELSE <<>>} :
       \E ok \in SendChoices(replies) :
         /\ net' = (net \ {m}) \cup Sent(replies, ok)
         /\ send_fails' = send_fails + Failed(replies, ok)
  /\ UNCHANGED <<id, probe, published, timeout, pc, findLocals, calls, garbage>>

\* --------------------------------------------------------------- try_store

\* The Store requests try_store sends for (key, val).
StoreRequests(n, key, val) ==
  LET nodes == find_k_known_nodes_closer_to(buckets[n], id[n], key)
  IN [j \in 1..Len(nodes) |->
        Msg(nodes[j].addr, n, id[n], "Store", key, val, <<>>)]

\* Node::try_store.
TryStore(n, key, val) ==
  /\ pc[n] = "idle"
  /\ store' = [store EXCEPT ![n][key] = val]
  /\ \E ok \in SendChoices(StoreRequests(n, key, val)) :
       SendAll(StoreRequests(n, key, val), ok)
  /\ calls' = [calls EXCEPT ![n]["store"] = @ + 1]
  /\ published' = published \cup {<<key, val>>}
  /\ UNCHANGED <<id, probe, buckets, timeout, pc, got, findLocals, garbage>>

\* -------------------------------------------------------------------- find

Min(a, b) == IF a < b THEN a ELSE b

\* A variant of the pass that drops the nodes of the last round.
FrontierWithoutCarry(n, key, seenNow, carry) ==
  find_k_known_nodes_closer_to_not_in(buckets[n], id[n], key, seenNow)

\* find, line 414: the nodes of a pass: the closest not yet seen, then those of
\* the last round.
Frontier(n, key, seenNow, carry) ==
  find_k_known_nodes_closer_to_not_in(buckets[n], id[n], key, seenNow) \o carry

\* The FindValue requests of a pass over the nodes front.
FindRequests(n, key, front) ==
  [j \in 1..Len(front) |->
     Msg(front[j].addr, n, id[n], "FindValue", key, NoValue, <<>>)]

\* find, lines 404-430: one pass of the loop, from its top to the blocking
\* receive, or to the return of Ok(None).  key, seenNow, carry and old are the
\* locals k, nodes_seen, nodes_to_try_from_last_round and old_timeout; pre are
\* the datagrams the caller passed to send_message just before; rnd and sentNow
\* are the counters rounds and sent_fv so far.
LoopPass(n, key, seenNow, carry, old, pre, rnd, sentNow) ==
  \E front \in {Frontier(n, key, seenNow, carry)} :
  LET reqs == FindRequests(n, key, front)
  IN IF front = <<>>
     THEN /\ \E ok \in SendChoices(pre) : SendAll(pre, ok)
          /\ timeout' = [timeout EXCEPT ![n] = old]
          /\ result' = [result EXCEPT ![n] = OkNone]
          /\ pc' = [pc EXCEPT ![n] = "idle"]
          /\ nodes_seen' = [nodes_seen EXCEPT ![n] = seenNow]
          /\ from_last' = [from_last EXCEPT ![n] = carry]
          /\ rounds' = [rounds EXCEPT ![n] = rnd]
          /\ sent_fv' = [sent_fv EXCEPT ![n] = sentNow]
     ELSE /\ \E ok \in SendChoices(pre \o reqs) :
               /\ SendAll(pre \o reqs, ok)
               /\ sent_fv' = [sent_fv EXCEPT ![n] =
                    [i \in Ids |-> Min(2, sentNow[i] + Cardinality(
                       {j \in 1..Len(front) : ok[Len(pre) + j] /\ front[j].id = i}))]]
          /\ timeout' = [timeout EXCEPT ![n] = "None"]
          /\ result' = [result EXCEPT ![n] = Pending]
          /\ nodes_seen' = [nodes_seen EXCEPT ![n] =
               seenNow \cup {front[j].id : j \in 1..Len(front)}]
          /\ from_last' = [from_last EXCEPT ![n] = <<>>]
          /\ rounds' = [rounds EXCEPT ![n] = Min(MaxRounds, rnd + 1)]
          /\ pc' = [pc EXCEPT ![n] = "recv"]

\* A variant of find that skips the look into the local store.
FindStartSearching(n, key) ==
  /\ pc[n] = "idle"
  /\ calls' = [calls EXCEPT ![n]["find"] = @ + 1]
  /\ k' = [k EXCEPT ![n] = key]
  /\ old_timeout' = [old_timeout EXCEPT ![n] = timeout[n]]
  /\ LoopPass(n, key, {}, <<>>, timeout[n], <<>>, 0, [i \in Ids |-> 0])
  /\ UNCHANGED <<id, probe, published, buckets, store, got, garbage>>

\* find, lines 384-430: a local hit returns at once; otherwise the timeout is
\* saved and cleared and the first pass of the loop runs.
FindStart(n, key) ==
  /\ pc[n] = "idle"
  /\ calls' = [calls EXCEPT ![n]["find"] = @ + 1]
  /\ k' = [k EXCEPT ![n] = key]
  /\ IF StoreGet(store[n], key) # NoValue
     THEN /\ result' = [result EXCEPT ![n] = OkSome(StoreGet(store[n], key))]
          /\ UNCHANGED <<pc, timeout, old_timeout, net, send_fails, nodes_seen,
                         from_last, rounds, sent_fv>>
     ELSE /\ old_timeout' = [old_timeout EXCEPT ![n] = timeout[n]]
          /\ LoopPass(n, key, {}, <<>>, timeout[n], <<>>, 0, [i \in Ids |-> 0])
  /\ UNCHANGED <<id, probe, published, buckets, store, got, garbage>>

\* find, line 430: recv_message succeeds.
FindRecv(n, m) ==
  /\ pc[n] = "recv"
  /\ RecvOk(n, m)
  /\ net' = net \ {m}
  /\ pc' = [pc EXCEPT ![n] = "match"]
  /\ UNCHANGED <<id, probe, published, store, timeout, findLocals, calls, send_fails, garbage>>

\* find, line 430: recv_message fails and `?` returns the error.
FindRecvErr(n, m) ==
  /\ pc[n] = "recv"
  /\ RecvErr(n, m)
  /\ net' = net \ {m}
  /\ result' = [result EXCEPT ![n] = Err]
  /\ pc' = [pc EXCEPT ![n] = "idle"]
  /\ UNCHANGED <<id, probe, published, store, timeout, k, nodes_seen, from_last, old_timeout,
                 rounds, sent_fv, calls, send_fails, garbage>>

\* A variant of the match that returns the value of any Value response.
FindMatchAnyKey(n) ==
  /\ pc[n] = "match"
  /\ store' = [store EXCEPT ![n] =
       IF got[n].t \in Requests THEN HandleStore(n, got[n]) ELSE @]
  /\ IF got[n].t = "Value"
     THEN /\ timeout' = [timeout EXCEPT ![n] = old_timeout[n]]
          /\ result' = [result EXCEPT ![n] = OkSome(got[n].val)]
          /\ pc' = [pc EXCEPT ![n] = "idle"]
          /\ UNCHANGED <<net, send_fails, nodes_seen, from_last, rounds, sent_fv>>
     ELSE \E pre \in {IF got[n].t \in Requests
                       THEN HandleReplies(n, buckets[n], got[n]) ELSE <<>>} :
            LoopPass(n, k[n], nodes_seen[n],
                     IF got[n].t = "CloserNodes" THEN got[n].nodes ELSE <<>>,
                     old_timeout[n], pre, rounds[n], sent_fv[n])
  /\ UNCHANGED <<id, probe, published, buckets, got, k, old_timeout, calls,
                 garbage>>

\* find, lines 431-457 and on to the next receive: the match on the received
\* message, then the next pass of the loop.
FindMatch(n) ==
  /\ pc[n] = "match"
  /\ store' = [store EXCEPT ![n] =
       IF got[n].t \in Requests THEN HandleStore(n, got[n]) ELSE @]
  /\ IF got[n].t = "Value" /\ got[n].key = k[n]
     THEN /\ timeout' = [timeout EXCEPT ![n] = old_timeout[n]]
          /\ result' = [result EXCEPT ![n] = OkSome(got[n].val)]
          /\ pc' = [pc EXCEPT ![n] = "idle"]
          /\ UNCHANGED <<net, send_fails, nodes_seen, from_last, rounds, sent_fv>>
     ELSE \E pre \in {IF got[n].t \in Requests
                       THEN HandleReplies(n, buckets[n], got[n]) ELSE <<>>} :
            LoopPass(n, k[n], nodes_seen[n],
                     IF got[n].t = "CloserNodes" THEN got[n].nodes ELSE <<>>,
                     old_timeout[n], pre, rounds[n], sent_fv[n])
  /\ UNCHANGED <<id, probe, published, buckets, got, k, old_timeout, calls, garbage>>

\* ------------------------------------------------------------ specification

Next ==
  \/ \E n \in DOMAIN BootList, len \in 1..3 :
       /\ len <= Len(BootList[n])
       /\ n \in Publishers => len = Len(BootList[n])
       /\ Bootstrap(n, len)
  \/ \E n \in Clients, p \in Nodes :
       calls[n]["ping"] < MaxPing /\ HasNoted(n, p) /\ SendPing(n, p)
  \/ \E n \in Clients, d \in Timeouts : SetReadTimeout(n, d)
  \/ \E n \in Clients : GarbageArrives(n)
  \/ \E n \in Servers, m \in net : Serve(n, m)
  \/ \E n \in Publishers, key \in Keys, val \in Values :
       calls[n]["store"] < MaxStores /\ TryStore(n, key, val)
  \/ \E n \in Clients, key \in Keys :
       calls[n]["find"] < MaxFinds /\ FindStart(n, key)
  \/ \E n \in Clients, m \in net : FindRecv(n, m)
  \/ \E n \in Clients, m \in net : FindRecvErr(n, m)
  \/ \E n \in Clients : rounds[n] < MaxPasses /\ FindMatch(n)

Spec == Init /\ [][Next]_vars

\* --------------------------------------- lookups in a bootstrapped network

\* The network after every application has bootstrapped with its MeshList and
\* before any datagram was sent.
MeshInit ==
  /\ id \in IdLayouts
  /\ buckets = [n \in Nodes |->
                  LET own == id[n]
                      RECURSIVE Noted(_)
                      Noted(len) ==
                        IF len = 0 THEN NewBuckets
                        ELSE note_node(Noted(len - 1), own,
                                       id[MeshList[n][len]], MeshList[n][len])
                  IN Noted(Len(MeshList[n]))]
  /\ store = [n \in Nodes |-> [key \in Keys |-> NoValue]]
  /\ timeout = [n \in Nodes |-> "None"]
  /\ net = {}
  /\ pc = [n \in Nodes |-> "idle"]
  /\ got = [n \in Nodes |-> NoMsg]
  /\ k = [n \in Nodes |-> 0]
  /\ nodes_seen = [n \in Nodes |-> {}]
  /\ from_last = [n \in Nodes |-> <<>>]
  /\ old_timeout = [n \in Nodes |-> "None"]
  /\ result = [n \in Nodes |-> NotCalled]
  /\ rounds = [n \in Nodes |-> 0]
  /\ sent_fv = [n \in Nodes |-> [i \in Ids |-> 0]]
  /\ calls = [n \in Nodes |-> [op \in Ops |->
                                  IF op = "boot" THEN 1 ELSE 0]]
  /\ send_fails = 0
  /\ garbage = 0
  /\ probe = NoProbe
  /\ published = {}

\* No send_to call fails in this step.
NoLoss == send_fails' = send_fails

\* The lookup and the servers answering it; no datagram is lost and the
\* lookup runs for as long as the code runs it.
LookupNext ==
  \/ \E n \in Clients, key \in Keys :
       calls[n]["find"] < MaxFinds /\ FindStart(n, key) /\ NoLoss
  \/ \E n \in Clients, m \in net : FindRecv(n, m)
  \/ \E n \in Clients : FindMatch(n) /\ NoLoss
  \/ \E n \in Servers, m \in net : Serve(n, m) /\ NoLoss

\* Every thread keeps running, every server answers the requests it is sent,
\* and the replies of every server keep being delivered to the client.
LookupFair ==
  /\ \A n \in Clients : WF_vars(FindMatch(n) /\ NoLoss)
  /\ \A n \in Servers : WF_vars(\E m \in net : Serve(n, m) /\ NoLoss)
  /\ \A n \in Clients, s \in Servers :
       SF_vars(\E m \in net : m.src = s /\ FindRecv(n, m))

LookupSpec == MeshInit /\ [][LookupNext]_vars /\ LookupFair

\* ------------------------------------- the requests, one handler at a time

\* The values that are published.
ApiValues == {"bar", "baz"}
\* The targets of the FindNode requests sent to p: its own id and a key.
FindNodeTargets(p) == {id[p], 1}
\* FindNode requests a client sends.
MaxFindNodes == 1
\* try_store calls per publisher.
ApiStores == 2

\* The application receives a datagram itself, as ping-pong.rs:46 does for
\* the Pong it expects: Node::recv_message.
RecvReply(n, m) ==
  /\ pc[n] = "idle"
  /\ RecvOk(n, m)
  /\ net' = net \ {m}
  /\ UNCHANGED <<id, probe, published, store, timeout, pc, findLocals, calls,
                 send_fails, garbage>>

\* Pings, FindNode requests and publications in the bootstrapped network: the
\* servers handle the requests, the client receives the replies, a publisher
\* publishes twice.  No send_to call fails.
ApiNext ==
  \/ \E n \in Clients, p \in Servers :
       calls[n]["ping"] < MaxPing /\ SendPing(n, p) /\ NoLoss
  \/ \E n \in Clients, p \in Servers :
       \E target \in FindNodeTargets(p) :
       /\ calls[n]["find_node"] < MaxFindNodes
       /\ SendFindNode(n, p, target) /\ NoLoss
  \/ \E n \in Servers, m \in net : Serve(n, m) /\ NoLoss
  \/ \E n \in Publishers, key \in Keys, val \in ApiValues :
       calls[n]["store"] < ApiStores /\ TryStore(n, key, val) /\ NoLoss
  \/ \E n \in Clients, m \in net : RecvReply(n, m)

ApiSpec == MeshInit /\ [][ApiNext]_vars

\* ------------------------------------------------------- repeated lookups

\* find calls per client.
RepeatFinds == 2

\* A key is published once; the publisher looks up what it has published and
\* the client looks keys up twice, the replies to its first lookup still in
\* flight during the second.  No send_to call fails.
RepeatNext ==
  \/ \E n \in Publishers, key \in Keys, val \in Values :
       calls[n]["store"] < MaxStores /\ TryStore(n, key, val) /\ NoLoss
  \/ \E n \in Publishers, key \in Keys :
       /\ calls[n]["find"] < MaxFinds
       /\ \E val \in Values : <<key, val>> \in published
       /\ FindStart(n, key) /\ NoLoss
  \/ \E n \in Clients, key \in Keys :
       calls[n]["find"] < RepeatFinds /\ FindStart(n, key) /\ NoLoss
  \/ \E n \in Clients, m \in net : FindRecv(n, m)
  \/ \E n \in Clients : rounds[n] < MaxPasses /\ FindMatch(n) /\ NoLoss
  \/ \E n \in Servers, m \in net : Serve(n, m) /\ NoLoss

RepeatSpec == MeshInit /\ [][RepeatNext]_vars

\* ---------------------------------------------------------- the ids alone

\* Distance::bucket_index called on the distances a and b.
BucketIndexOf(a, b) ==
  /\ probe' = [op |-> "bucket_index", a |-> a, b |-> b,
               index_a |-> bucket_index(a), index_b |-> bucket_index(b)]
  /\ UNCHANGED <<id, published, buckets, store, timeout, net, pc, got,
                 findLocals, calls, send_fails, garbage>>

\* format!("{}", id) for the id with the given bytes, then
\* NodeId::from_hex_string on what was written (node_id.rs:198-202).
HexRoundTrip(bytes) ==
  /\ probe' = [op |-> "hex", id |-> bytes, hex |-> fmt(bytes),
               parsed |-> from_hex_string(fmt(bytes))]
  /\ UNCHANGED <<id, published, buckets, store, timeout, net, pc, got,
                 findLocals, calls, send_fails, garbage>>

\* One call of either function, on any distance or id.
IdNext ==
  \/ \E a \in Ids, b \in Ids : probe = NoProbe /\ BucketIndexOf(a, b)
  \/ \E bytes \in ByteIds : probe = NoProbe /\ HexRoundTrip(bytes)

IdSpec == Init /\ [][IdNext]_vars

\* ----------------------------------------------- the routing table alone

\* The node whose routing table is exercised directly.
Subject == "A"
\* The ids the subject is constructed with.
SubjectIds == {0, 5}
\* The address the noted peers are reached at.
PeerAddrs == {"B"}
\* The sets of ids a direct call excludes.
Excluded == {S \in SUBSET Ids : Cardinality(S) <= MaxExcluded}

\* Node::new for the subject, with either of its ids.
TableInit ==
  /\ id \in {[l EXCEPT ![Subject] = o] : l \in IdLayouts, o \in SubjectIds}
  /\ buckets = [n \in Nodes |-> NewBuckets]
  /\ store = [n \in Nodes |-> [key \in Keys |-> NoValue]]
  /\ timeout = [n \in Nodes |-> "None"]
  /\ net = {}
  /\ pc = [n \in Nodes |-> "idle"]
  /\ got = [n \in Nodes |-> NoMsg]
  /\ k = [n \in Nodes |-> 0]
  /\ nodes_seen = [n \in Nodes |-> {}]
  /\ from_last = [n \in Nodes |-> <<>>]
  /\ old_timeout = [n \in Nodes |-> "None"]
  /\ result = [n \in Nodes |-> NotCalled]
  /\ rounds = [n \in Nodes |-> 0]
  /\ sent_fv = [n \in Nodes |-> [i \in Ids |-> 0]]
  /\ calls = [n \in Nodes |-> [op \in Ops |-> 0]]
  /\ send_fails = 0
  /\ garbage = 0
  /\ probe = NoProbe
  /\ published = {}

\* Node::note_node(i, a) called on node n.
NoteNode(n, i, a) ==
  /\ pc[n] = "idle"
  /\ buckets' = [buckets EXCEPT ![n] = note_node(buckets[n], id[n], i, a)]
  /\ UNCHANGED <<id, probe, published, store, timeout, net, pc, got, findLocals, calls,
                 send_fails, garbage>>

\* Node::find_k_known_nodes_closer_to_not_in(target, excluded) called on
\* node n; the call and what it returned are recorded.
ClosestK(n, target, excluded) ==
  /\ pc[n] = "idle"
  /\ probe' = [op |-> "closest_k", target |-> target, excluded |-> excluded,
               result |-> find_k_known_nodes_closer_to_not_in(
                            buckets[n], id[n], target, excluded)]
  /\ UNCHANGED <<id, published, buckets, store, timeout, net, pc, got,
                 findLocals, calls, send_fails, garbage>>

\* Peers are noted in the subject's table, then the table is queried once.
TableNext ==
  \/ \E i \in Ids, a \in PeerAddrs : probe = NoProbe /\ NoteNode(Subject, i, a)
  \/ \E target \in Ids, excluded \in Excluded :
       probe = NoProbe /\ ClosestK(Subject, target, excluded)

TableSpec == TableInit /\ [][TableNext]_vars

\* ------------------------------------------------------- one bucket alone

\* The addresses the ids are seen at.
BucketAddrs == {"A", "B"}

\* KBucket::saw_node(i, a) called directly on the first bucket of n; the
\* call, the bucket before it and the returned entry are recorded.
SawNode(n, i, a) ==
  /\ buckets' = [buckets EXCEPT ![n][0] = saw_node(buckets[n][0], i, a)]
  /\ probe' = [op |-> "saw_node", id |-> i, addr |-> a,
               before |-> buckets[n][0],
               evicted |-> saw_node_evicted(buckets[n][0], i, a)]
  /\ UNCHANGED <<id, published, store, timeout, net, pc, got, findLocals, calls,
                 send_fails, garbage>>

\* Any id is seen at any address, again and again.
BucketNext == \E i \in Ids, a \in BucketAddrs : SawNode(Subject, i, a)

BucketSpec == Init /\ [][BucketNext]_vars

\* ------------------------------------------------------------------ claims

\* The ids bucket b of node n holds, in order.
BucketIds(n, b) == [j \in 1..Len(buckets[n][b]) |-> buckets[n][b][j].id]

\* Whether the table of n holds an entry for the id i.
Knows(n, i) == \E e \in TableEntries(buckets[n]) : e.id = i

\* C1: whatever note_node calls and received messages led to a state, every
\* k-bucket of every node holds at most K entries once the operation that
\* touched it has returned.
C1_BucketLength ==
  \A n \in Nodes : \A b \in DOMAIN buckets[n] : Len(buckets[n][b]) <= K

\* A node noted more peers of one bucket than the bucket holds: the bucket is
\* full and a peer the node bootstrapped with is gone from it.
C1_Witness ==
  \E n \in DOMAIN BootList : \E b \in DOMAIN buckets[n] :
    /\ calls[n]["boot"] = 1
    /\ Len(buckets[n][b]) = K
    /\ bucket_index(xor(id[n], id[BootList[n][1]])) = b
    /\ ~Knows(n, id[BootList[n][1]])

\* C2: in every reachable state no NodeId occurs more than once within a
\* k-bucket, whether saw_node was called with new ids, with repeated ids or
\* with ids arriving at a full bucket.
C2_NoDuplicateIds ==
  \A n \in Nodes : \A b \in DOMAIN buckets[n] :
    \A j, l \in 1..Len(buckets[n][b]) :
      buckets[n][b][j].id = buckets[n][b][l].id => j = l

\* A node received a message from a peer it had bootstrapped with, so saw_node
\* ran for an id the bucket already held, and the bucket is full.
C2_Witness ==
  \E n \in DOMAIN BootList :
    /\ calls[n]["boot"] = 1
    /\ got[n] # NoMsg
    /\ \E j \in 1..Len(BootList[n]) : BootList[n][j] = got[n].src
    /\ Len(buckets[n][bucket_index(xor(id[n], got[n].sender))]) = K

\* C3: note_node with the owner's own id leaves the routing table unchanged,
\* so in every reachable state, also after a node received a datagram whose
\* sender field is its own id, no bucket of a node holds the node's own id.
C3_NoOwnId ==
  \A n \in Nodes : ~Knows(n, id[n])

\* C4: teach on every message: once recv_message has returned a message m to
\* node n, whatever its kind, and until n receives again, the back entry of
\* bucket bucket_index(xor(owner, m.sender)) of n is m.sender; this holds in
\* particular where the lookup has received m and has not yet matched on it.
C4_TeachOnEveryMessage ==
  \A n \in Nodes :
    got[n] # NoMsg =>
      LET ids == BucketIds(n, bucket_index(xor(id[n], got[n].sender)))
      IN Len(ids) > 0 /\ ids[Len(ids)] = got[n].sender

\* A lookup has received a response that is not a reply to its FindValue, from
\* a peer that was not the most recent of its bucket, and has not matched on
\* it yet.
C4_Witness ==
  \E n \in Clients :
    /\ pc[n] = "match"
    /\ got[n].t = "Pong"
    /\ Len(buckets[n][bucket_index(xor(id[n], got[n].sender))]) = K

\* A step in which a find call of n returns.
FindReturns(n) ==
  /\ result'[n].kind \in {"OkSome", "OkNone", "Err"}
  /\ result[n] = Pending \/ calls'[n]["find"] # calls[n]["find"]

\* The read timeout that was configured when the find call that is running, or
\* starting in this step, was made.
TimeoutBefore(n) == IF result[n] = Pending THEN old_timeout[n] ELSE timeout[n]

\* C5: find restores the read timeout configured before the call on every exit
\* path: whenever a find call returns, with Ok(Some(v)), with Ok(None) or with
\* the error of a failed receive, the socket has the timeout it had before.
C5_TimeoutRestored ==
  [][\A n \in Nodes : FindReturns(n) => timeout'[n] = TimeoutBefore(n)]_vars

\* Every peer id the lookup of n knows of: those of its table and those it
\* has queried.
KnownPeers(n) == {e.id : e \in TableEntries(buckets[n])} \cup nodes_seen[n]

\* C6: when servers answer FindValue with CloserNodes lists of peers they
\* know, a find makes at most |known peers| + 1 passes that compute the
\* frontier and send FindValue to it.
C6_RoundsBounded ==
  \A n \in Clients : rounds[n] <= Cardinality(KnownPeers(n)) + 1

\* C7: when every FindValue request is answered and every reply is delivered,
\* a find for a key that no node stores eventually returns, also when every
\* CloserNodes reply lists only peers already seen.
C7_FindReturns ==
  \A n \in Clients : (result[n] = Pending) ~> (result[n] # Pending)

\* C8: within one find call FindValue is sent to a peer id at most once.
C8_QueriedOnce ==
  \A n \in Nodes : \A i \in Ids : sent_fv[n][i] <= 1

\* The lookup of n has received a message that is neither a CloserNodes
\* response nor the Value it looks for, and has not matched on it yet.
StaleReceived(n) ==
  /\ pc[n] = "match"
  /\ got[n].t # "CloserNodes"
  /\ ~(got[n].t = "Value" /\ got[n].key = k[n])

\* C9: while find waits for replies, a received request, a Value for another
\* key and a response that is no FindValue response leave the lookup waiting:
\* find does not return on such a message, starts no round and sends no
\* further FindValue.
C9_StaleKeepsBlocking ==
  [][\A n \in Nodes :
       StaleReceived(n) /\ pc'[n] # "match" =>
         /\ result'[n] = Pending
         /\ rounds'[n] = rounds[n]
         /\ sent_fv'[n] = sent_fv[n]]_vars

\* A Value response for the key n looks up is in flight to n.
ValueUndelivered(n) ==
  \E m \in net : m.to = n /\ m.t = "Value" /\ m.key = k[n]

\* C10: end-to-end lookup: when no datagram was lost and every server the
\* client knows holds the key, find does not return Ok(None) while the Value
\* reply of a peer it has queried is still undelivered.
C10_NoNoneWhileValueInFlight ==
  \A n \in Clients :
    ( /\ result[n] = OkNone
      /\ send_fails = 0 /\ garbage = 0
      /\ \A e \in TableEntries(buckets[n]) :
           e.addr \in Servers /\ store[e.addr][k[n]] # NoValue )
    => ~ValueUndelivered(n)

\* The entries the last direct call of closest_k returned.
Returned == {probe.result[j] : j \in 1..Len(probe.result)}

\* The distance of entry e to the target of the last direct call.
ToTarget(e) == xor(e.id, probe.target)

\* C13: find_k_known_nodes_closer_to_not_in returns at most K entries, each
\* of them an entry of the routing table at the time of the call and none of
\* them with an excluded id.
C13_ClosestKWithinTable ==
  probe.op = "closest_k" =>
    /\ Len(probe.result) <= K
    /\ Returned \subseteq TableEntries(buckets[Subject])
    /\ \A e \in Returned : e.id \notin probe.excluded

\* C13 happens: a call with a non-empty excluded set on a table holding more
\* than K peers, one of them excluded, returned K entries.
C13_Witness ==
  /\ probe.op = "closest_k"
  /\ Len(probe.result) = K
  /\ Cardinality(TableEntries(buckets[Subject])) > K + 1
  /\ \E e \in TableEntries(buckets[Subject]) : e.id \in probe.excluded

\* C14: the list find_k_known_nodes_closer_to_not_in returns is in ascending
\* order of XOR distance to the target.
C14_SortedByTarget ==
  probe.op = "closest_k" =>
    \A j \in 1..Len(probe.result), l \in 1..Len(probe.result) :
      j < l => ToTarget(probe.result[j]) <= ToTarget(probe.result[l])

\* C15: find_k_known_nodes_closer_to_not_in returns the K closest: no peer
\* of the table that is neither excluded nor returned is strictly closer to
\* the target than a returned one.
C15_NoCloserLeftOut ==
  probe.op = "closest_k" =>
    \A e \in TableEntries(buckets[Subject]) \ Returned :
      e.id \notin probe.excluded =>
        \A r \in Returned : ToTarget(e) >= ToTarget(r)

\* Node n takes the datagram m off the network in its receive loop and
\* passes it to handle_request.
Handles(n, m) == m.to = n /\ pc[n] = "idle" /\ m \notin net'

\* The reply the handler of n owes the FindValue request m.
FindValueReply(n, m) ==
  IF store[n][m.key] # NoValue
  THEN Msg(m.src, n, id[n], "Value", m.key, store[n][m.key], <<>>)
  ELSE Msg(m.src, n, id[n], "CloserNodes", 0, NoValue,
           find_k_known_nodes_closer_to(buckets'[n], id[n], m.key))

\* C16: handling FindValue(k) sends one reply to the source of the request,
\* Value(k, v) with the stored value when the store has k and CloserNodes of
\* the closest known nodes otherwise, nothing else, and leaves the store as
\* it was.  (The reply is missing only when its send_to failed.)
C16_FindValueOneReply ==
  [][\A n \in Servers, m \in net :
       Handles(n, m) /\ m.t = "FindValue" =>
         /\ net' \subseteq (net \ {m}) \cup {FindValueReply(n, m)}
         /\ send_fails' = send_fails => FindValueReply(n, m) \in net'
         /\ store' = store]_vars

\* C16 happens: a Value reply and a CloserNodes reply to the client are in
\* flight together.
C16_Witness ==
  \E m1 \in net, m2 \in net :
    /\ m1.t = "Value" /\ m1.to \in Clients /\ m1.val = store[m1.src][m1.key]
    /\ m2.t = "CloserNodes" /\ m2.to \in Clients

\* The Store requests a try_store(key, val) of n owes its closest known nodes.
StoresOwed(n, key, val) ==
  LET nodes == find_k_known_nodes_closer_to(buckets[n], id[n], key)
  IN {Msg(nodes[j].addr, n, id[n], "Store", key, val, <<>>) :
        j \in 1..Len(nodes)}

\* C20: try_store(k, v) leaves the local store mapping k to v whatever the
\* table holds and whatever the sends do; it sends Store(k, v) to the entries
\* of the closest known nodes and nothing else, at most K datagrams, and
\* only the sends that failed are missing.
C20_TryStoreBestEffort ==
  [][\A n \in Nodes :
       calls'[n]["store"] # calls[n]["store"] =>
         \E key \in Keys, val \in Values :
           /\ store' = [store EXCEPT ![n][key] = val]
           /\ net \subseteq net'
           /\ net' \ net \subseteq StoresOwed(n, key, val)
           /\ Cardinality(StoresOwed(n, key, val)) <= K
           /\ Cardinality(StoresOwed(n, key, val) \ net')
                <= send_fails' - send_fails]_vars

\* C20 happens: a publisher that knows two peers has stored locally, one of
\* its two sends failed and the other Store is in flight.
C20_Witness ==
  /\ \A n \in Clients : calls[n]["ping"] = 0 /\ calls[n]["find"] = 0
  /\ send_fails = 1
  /\ \E n \in Publishers, m \in net :
       /\ calls[n]["store"] = 1
       /\ m.t = "Store" /\ m.src = n /\ store[n][m.key] = m.val
       /\ Cardinality(TableEntries(buckets[n])) = 2

\* C20 happens with an empty table: the pair is stored and nothing is sent.
C20_WitnessEmptyTable ==
  \E n \in Publishers, key \in Keys :
    /\ calls[n]["store"] = 1
    /\ TableEntries(buckets[n]) = {}
    /\ store[n][key] # NoValue
    /\ net = {}

\* The reply the handler of n owes the FindNode request m for another id.
FindNodeReply(n, m) ==
  Msg(m.src, n, id[n], "FindNodeResp", 0, NoValue,
      find_k_known_nodes_closer_to_not_in(buckets'[n], id[n], m.key, {}))

\* C17: handling FindNode(target) emits no datagram when target is the
\* handler's own id; for any other target it emits one FindNode reply to the
\* source carrying the closest known nodes of target, and nothing else.
C17_FindNodeReply ==
  [][\A n \in Servers, m \in net :
       Handles(n, m) /\ m.t = "FindNode" =>
         IF m.key = id[n]
         THEN net' = net \ {m}
         ELSE /\ net' \subseteq (net \ {m}) \cup {FindNodeReply(n, m)}
              /\ send_fails' = send_fails => FindNodeReply(n, m) \in net'
    ]_vars

\* C17 happens: the only request sent was FindNode for the server's own id,
\* the server handled it and nothing is in flight.
C17_Witness ==
  /\ net = {}
  /\ published = {}
  /\ \A n \in Clients : calls[n]["ping"] = 0 /\ calls[n]["find_node"] = 1
  /\ \E n \in Servers : got[n].t = "FindNode" /\ got[n].key = id[n]

\* C17 happens for another target: the reply to it is in flight.
C17_WitnessReply ==
  \E m \in net : /\ m.t = "FindNodeResp"
                  /\ got[m.src].t = "FindNode"
                  /\ got[m.src].key # id[m.src]
                  /\ Len(m.nodes) = K

\* The Pong the handler of n owes the Ping m.
PongReply(n, m) == Msg(m.src, n, id[n], "Pong", 0, NoValue, <<>>)

\* C18: handling a Ping sends one Pong to the source of the datagram, with
\* the handler's id as sender, and nothing else; when a node receives a Pong
\* its table holds the sender afterwards.
C18_PingPong ==
  [][/\ \A n \in Servers, m \in net :
          Handles(n, m) /\ m.t = "Ping" =>
            /\ net' \subseteq (net \ {m}) \cup {PongReply(n, m)}
            /\ send_fails' = send_fails => PongReply(n, m) \in net'
     /\ \A n \in Nodes :
          got'[n] # got[n] /\ got'[n].t = "Pong" =>
            /\ got'[n].sender = id[got'[n].src]
            /\ \E e \in TableEntries(buckets'[n]) :
                 e.id = got'[n].sender /\ e.addr = got'[n].src
    ]_vars

\* C18 happens: the client, whose table did not hold the server A, pinged it
\* and received its Pong, and no other datagram.
C18_Witness ==
  \E n \in Clients :
    /\ calls[n]["ping"] = 1 /\ calls[n]["find_node"] = 0
    /\ got[n].t = "Pong" /\ got[n].src = "A"
    /\ Knows(n, id["A"])

\* C19: handling Store(k, v) makes the store map k to v, whatever it held for
\* k, leaves the other keys and the other nodes' stores as they were, and
\* sends nothing.
C19_StoreOverwrites ==
  [][\A n \in Servers, m \in net :
       Handles(n, m) /\ m.t = "Store" =>
         /\ store' = [store EXCEPT ![n][m.key] = m.val]
         /\ net' = net \ {m}
    ]_vars

\* C19 happens: both values were published under one key by a publisher
\* that knew the servers A and B alone, and a server has handled both Store
\* requests, the second replacing the value of the first.
C19_Witness ==
  \E n \in Servers \ Publishers, key \in Keys :
    /\ \A c \in Clients : calls[c]["ping"] = 0 /\ calls[c]["find_node"] = 0
    /\ got[n].t = "Store" /\ got[n].key = key
    /\ store[n][key] = got[n].val
    /\ \A v \in ApiValues : <<key, v>> \in published
    /\ \A m \in net : m.t = "Store" => m.to # n

\* C11: find(k) returns Ok(Some(v)) only if the local store held v for k when
\* it was called, or the message it matched was a Value response with key k
\* carrying v; and v was published under k by some try_store call.
C11_SomeOnlyForKey ==
  [][\A n \in Nodes :
       FindReturns(n) /\ result'[n].kind = "OkSome" =>
         LET v == result'[n].val
         IN /\ \/ /\ calls'[n]["find"] # calls[n]["find"]
                  /\ store[n][k'[n]] = v
               \/ /\ pc[n] = "match"
                  /\ got[n].t = "Value" /\ got[n].key = k[n] /\ got[n].val = v
            /\ <<k'[n], v>> \in published
    ]_vars

\* C11 happens: the second lookup of a client has ended, and not with the
\* value of the message it received last, a Value response to the first
\* lookup carrying another key.
C11_Witness ==
  \E n \in Clients :
    /\ calls[n]["find"] = 2
    /\ got[n].t = "Value" /\ got[n].key # k[n]
    /\ pc[n] = "idle"
    /\ result[n] = OkNone

\* C12: a find(k) called while the local store holds k returns the stored
\* value in the same step and changes nothing else: no datagram is sent or
\* received, and the read timeout, the table and the store are as before.
C12_LocalHit ==
  [][\A n \in Nodes :
       calls'[n]["find"] # calls[n]["find"] /\ store[n][k'[n]] # NoValue =>
         /\ result'[n] = OkSome(store[n][k'[n]])
         /\ pc'[n] = "idle"
         /\ UNCHANGED <<net, send_fails, got, timeout, buckets, store>>
    ]_vars

\* C12 happens: the publisher looked up the key it had published and got
\* the value from its own store, while its Store requests are still in
\* flight.
C12_Witness ==
  \E n \in Publishers :
    /\ calls[n]["find"] = 1
    /\ store[n][k[n]] # NoValue
    /\ result[n] = OkSome(store[n][k[n]])
    /\ \E m \in net : m.t = "Store" /\ m.src = n

\* C21: when recv_message fails on a datagram that does not decode, the call
\* that was receiving ends with an error value, and every routing table and
\* every store is as before: the source of the datagram is not noted.
C21_RecvErrorChangesNothing ==
  [][\A n \in Nodes, m \in net :
       m.to = n /\ m.t = "Garbage" /\ m \notin net' =>
         /\ result'[n] = Err
         /\ buckets' = buckets
         /\ store' = store
         /\ got' = got
    ]_vars

\* C21 happens: a lookup of a client that knows peers has ended with the
\* error of a datagram that did not decode.
C21_Witness ==
  \E n \in Clients :
    /\ result[n] = Err
    /\ garbage = 1
    /\ TableEntries(buckets[n]) # {}
    /\ \A m \in net : m.t # "Garbage"

\* The position of the highest set bit of the non-zero distance d, bit 0 the
\* least significant.
HighestBit(d) == CHOOSE p \in 0..(IdBits - 1) : 2^p <= d /\ d < 2^(p + 1)

\* C22: bucket_index(d) is a valid bucket number; for a non-zero d it is the
\* position of the highest set bit and for the zero distance it is 0; so two
\* non-zero distances share an index exactly when their highest set bits
\* coincide, and a larger distance never has a smaller index.
C22_BucketIndexIsHighestBit ==
  probe.op = "bucket_index" =>
    /\ probe.index_a \in 0..(NumBuckets - 1)
    /\ probe.a # 0 => probe.index_a = HighestBit(probe.a)
    /\ probe.a = 0 => probe.index_a = 0
    /\ probe.a # 0 /\ probe.b # 0 =>
         (probe.index_a = probe.index_b <=> HighestBit(probe.a) = HighestBit(probe.b))
    /\ probe.a > probe.b => probe.index_a >= probe.index_b

\* C22 happens: the distances 2 and 3 were given one index.
C22_Witness ==
  /\ probe.op = "bucket_index"
  /\ probe.a = 2 /\ probe.b = 3
  /\ probe.index_a = probe.index_b

\* C22 happens: the distances 1 and 2 were given two indices.
C22_WitnessApart ==
  /\ probe.op = "bucket_index"
  /\ probe.a = 1 /\ probe.b = 2
  /\ probe.index_a # probe.index_b

\* C23: parsing what an id was formatted as gives the id back, for every id,
\* the zero id, formatted as a single 0, included.
C23_HexRoundTrip ==
  probe.op = "hex" =>
    /\ probe.parsed = Some(probe.id)
    /\ (\A j \in 1..HexBytes : probe.id[j] = 0) => probe.hex = <<"0">>

\* The bucket the last direct call of saw_node left.
After == buckets[Subject][0]

\* The last direct call of saw_node was for an id the bucket held.
WasPresent == \E j \in 1..Len(probe.before) : probe.before[j].id = probe.id

\* The entries of the sequence s for other ids than that of the last call.
Others(s) == SelectSeq(s, LAMBDA e : e.id # probe.id)

C25_EvictsFrontWhenFull ==
  probe.op = "saw_node" =>
    /\ ~WasPresent /\ Len(probe.before) = K =>
         /\ probe.evicted = <<probe.before[1]>>
         /\ After = Append(Tail(probe.before),
                           KBucketEntry(probe.id, probe.addr))
    /\ probe.evicted # <<>> => ~WasPresent /\ Len(probe.before) = K

\* C25 happens: a new id was seen by a full bucket and an entry came back.
C25_Witness ==
  /\ probe.op = "saw_node"
  /\ ~WasPresent
  /\ Len(probe.before) = K
  /\ probe.evicted # <<>>
  /\ Len(After) = K

C26_Placement ==
  \A n \in Nodes :
    /\ \A b \in DOMAIN buckets[n] :
         \A j \in 1..Len(buckets[n][b]) :
           bucket_index(xor(id[n], buckets[n][b][j].id)) = b
    /\ \A b1 \in DOMAIN buckets[n], b2 \in DOMAIN buckets[n] :
         b1 # b2 =>
           \A j1 \in 1..Len(buckets[n][b1]), j2 \in 1..Len(buckets[n][b2]) :
             buckets[n][b1][j1].id # buckets[n][b2][j2].id

\* C26 happens: a node has peers in every bucket of its table.
C26_Witness ==
  \E n \in Nodes : \A b \in DOMAIN buckets[n] : buckets[n][b] # <<>>

\* C27: a table gains an entry only in a step in which its node is
\* bootstrapped with note_node calls or receives a message, and then only
\* the entry of the sender of that message: the peers a FindNode or
\* CloserNodes reply lists are not inserted.
C27_OnlySendersAreNoted ==
  [][\A n \in Nodes :
       \A e \in TableEntries(buckets'[n]) \ TableEntries(buckets[n]) :
         \/ calls'[n]["boot"] # calls[n]["boot"]
         \/ \E m \in net \ net' :
              /\ m.to = n /\ m = got'[n]
              /\ e = KBucketEntry(m.sender, m.src)
    ]_vars

\* C27 happens: a lookup has received a CloserNodes reply listing a peer its
\* table does not hold, has gone on to send FindValue to that peer, and the
\* table still does not hold it.
C27_Witness ==
  \E n \in Clients :
    /\ pc[n] = "recv"
    /\ got[n].t = "CloserNodes"
    /\ \E j \in 1..Len(got[n].nodes) :
         /\ ~Knows(n, got[n].nodes[j].id)
         /\ got[n].nodes[j].id \in nodes_seen[n]
         /\ sent_fv[n][got[n].nodes[j].id] > 0

\* The entries of the subject's table that the last direct call of closest_k
\* did not exclude.
Eligible ==
  {e \in TableEntries(buckets[Subject]) : e.id \notin probe.excluded}

\* C29: when the table holds no more than K peers that are not excluded,
\* find_k_known_nodes_closer_to_not_in returns every one of them, whatever
\* their buckets and the home bucket of the target; it returns the empty
\* list only when every peer of the table is excluded.
C29_ReturnsAllWhenFew ==
  probe.op = "closest_k" =>
    /\ Cardinality(Eligible) <= K => Returned = Eligible
    /\ probe.result = <<>> => Eligible = {}

\* C29 happens: the only peer that is not excluded is in the bucket farthest
\* from the home bucket of the target, other buckets hold excluded peers,
\* and the call returned that peer.
C29_Witness ==
  /\ probe.op = "closest_k"
  /\ Cardinality(Eligible) = 1
  /\ probe.excluded # {}
  /\ Len(probe.result) = 1
  /\ bucket_index(xor(id[Subject], probe.target)) = 0
  /\ bucket_index(xor(id[Subject], probe.result[1].id)) = NumBuckets - 1
  /\ buckets[Subject][0] # <<>>

\* The step starts a pass of the loop of find on n: the call starts without
\* a local hit, or the message received is not the Value looked up.
PassStarts(n) ==
  \/ calls'[n]["find"] # calls[n]["find"] /\ store[n][k'[n]] = NoValue
  \/ /\ pc[n] = "match" /\ pc'[n] # "match"
     /\ ~(got[n].t = "Value" /\ got[n].key = k[n])

\* nodes_seen at the top of the pass that starts.
SeenAtTop(n) == IF pc[n] = "match" THEN nodes_seen[n] ELSE {}

\* nodes_to_try_from_last_round at the top of the pass that starts.
CarryAtTop(n) ==
  IF pc[n] = "match" /\ got[n].t = "CloserNodes" THEN got[n].nodes ELSE <<>>

\* The frontier of the pass that starts.
FrontierAtTop(n) ==
  find_k_known_nodes_closer_to_not_in(buckets[n], id[n], k'[n], SeenAtTop(n))
    \o CarryAtTop(n)

\* The FindValue requests the pass that starts owes its frontier.
RequestsOwed(n) ==
  {Msg(FrontierAtTop(n)[j].addr, n, id[n], "FindValue", k'[n], NoValue, <<>>) :
     j \in 1..Len(FrontierAtTop(n))}

\* C30: the frontier of every pass of find is the closest known nodes not
\* yet seen followed by the nodes of the last CloserNodes reply; find returns
\* Ok(None) exactly when it is empty; otherwise the id of every frontier
\* entry is added to nodes_seen and FindValue(k) is sent to every entry,
\* only the sends that failed missing; nodes_seen loses nothing during the
\* call.
C30_FrontierOfEveryPass ==
  [][\A n \in Nodes :
       /\ PassStarts(n) =>
            IF FrontierAtTop(n) = <<>>
            THEN result'[n] = OkNone
            ELSE /\ result'[n] = Pending
                 /\ nodes_seen'[n] = SeenAtTop(n) \cup
                      {FrontierAtTop(n)[j].id : j \in 1..Len(FrontierAtTop(n))}
                 /\ Cardinality(RequestsOwed(n) \ net')
                      <= send_fails' - send_fails
       /\ result[n] = Pending => nodes_seen[n] \subseteq nodes_seen'[n]
    ]_vars

\* C30 happens: a pass whose frontier came from a CloserNodes reply has
\* marked its entries as seen, one FindValue of the lookup was not sent
\* because its send failed, and the others were sent.
C30_Witness ==
  \E n \in Clients :
    /\ pc[n] = "recv"
    /\ rounds[n] >= 2
    /\ got[n].t = "CloserNodes" /\ got[n].nodes # <<>>
    /\ \A j \in 1..Len(got[n].nodes) : got[n].nodes[j].id \in nodes_seen[n]
    /\ send_fails = 1
    /\ \E i \in nodes_seen[n] : sent_fv[n][i] = 0
    /\ \E i \in nodes_seen[n] : sent_fv[n][i] > 0

====
